---- MODULE Spec2Model ----
(***************************************************************************)
(* morpholingo: the collector (src/collector.py), the culler's exclusion   *)
(* filter (src/culler.py) and the cleaner (src/preprocessing/cleaners.py), *)
(* as state machines over one document directory.                          *)
(*                                                                         *)
(*   SpecAcquire one collection run up to the launch of the item tasks:    *)
(*               main chunks NUMBER, calls the random-id endpoint once per *)
(*               chunk and builds the request list.                        *)
(*   SpecFetch   one collection run from the request list on: the item     *)
(*               tasks run interleaved on the event loop, gather joins     *)
(*               them, async_fetch_files inspects them.                    *)
(*   SpecCull    culler runs over a directory of documents: sequential     *)
(*               read/classify pass, then the removal pass, then the       *)
(*               report of main.                                           *)
(*   SpecClean   clean_wikipedia applied to a text and to its result.      *)
(***************************************************************************)
EXTENDS Integers, Sequences, FiniteSets, TLC

VARIABLES
    \* ---- collector.py ----
    number,         \* main: int(args.NUMBER)
    chunked_article_numbers,    \* main: the list chunk returned
    cidx,           \* main: position of the loop over the chunk list
    calls,          \* the requests sent to the random-id endpoint, each with
                    \* the status of its answer (history)
    random_list,    \* main: the items returned by the random-id calls, in order
    article_dict,   \* main: id -> title, as the entries in insertion order
    url_list,       \* main: the (api_url, params) request list
    tasks,          \* create_async_get_request_session_and_run: the asyncio tasks
    opened,         \* indices of the tasks that called aiofiles.open (history)
    fpc,            \* position of main / async_fetch_files
    aio_error,      \* message of the AIOError raised by async_fetch_files, or None
    exit_code,      \* exit status of the collector process, or None
    \* ---- the document directory (shared by both tools) ----
    disk,           \* path -> content of the file on that path
    \* ---- culler.py ----
    lang_tag,       \* LANGTAG argument
    run,            \* number of the culler invocation on the directory
    cpc,            \* position of culler main / remove_files
    start_disk,     \* the directory as it was when the run started (history)
    filepaths,      \* main: list(Path(TARGETDIR).glob("*.json"))
    idx,            \* remove_files: position of the classification loop
    remove_path_list,
    ridx,           \* remove_files: position of the removal loop
    stub_file_count,
    empty_content_count,
    below_content_size_count,
    cull_result,    \* the value remove_files / cull returned, or None
    cull_error,     \* the exception that ended the run, or None
    start_filepath_count,
    remaining_files,
    stdout,         \* lines printed by remove_files
    log,            \* history: reads, criterion evaluations, os.remove calls
    \* ---- preprocessing/cleaners.py ----
    input_text,     \* the text handed to clean_wikipedia
    cleaned,        \* clean_wikipedia(input_text), or NoContent before the call
    recleaned       \* clean_wikipedia(cleaned), or NoContent before the call

acquire_vars == <<number, chunked_article_numbers, cidx, calls>>
fetch_vars == <<random_list, article_dict, url_list, tasks, opened, fpc, aio_error,
                exit_code>>
clean_vars == <<input_text, cleaned, recleaned>>
cull_vars == <<lang_tag, run, cpc, start_disk, filepaths, idx, remove_path_list, ridx,
               stub_file_count, empty_content_count, below_content_size_count,
               cull_result, cull_error, start_filepath_count, remaining_files,
               stdout, log>>
vars == <<acquire_vars, fetch_vars, disk, cull_vars, clean_vars>>

None == "None"

\* A task that has no result (yet): task.result() of such a task raises.
NoResult == [none |-> TRUE]

(***************************************************************************)
(* Bounds of the model.                                                    *)
(***************************************************************************)
MaxItems == 3       \* ids returned by the random-id endpoint in one run
MaxId == 3          \* article ids are 1..MaxId
MaxFiles == 2       \* documents in the directory a culler run starts on
MaxRuns == 2        \* culler invocations on the same directory
MaxChunks == 2      \* NUMBER goes up to MaxChunks * wikipedia_max + 1
MaxTokens == 3      \* pieces a text handed to the cleaner is made of

Ids == 1..MaxId

\* Sequences over S of length at most n.
SeqUpTo(S, n) == UNION {[1..k -> S] : k \in 0..n}

Range(s) == {s[i] : i \in DOMAIN s}

(***************************************************************************)
(* collector.py                                                            *)
(***************************************************************************)
LANG == "en"
TARGETDIR == "corpus"
HTTP_OK == 200

\* What the parse endpoint can answer: success, or "not found".
StatusCodes == {HTTP_OK, 404}

\* The response body of the parse endpoint for an article, as the chunks
\* a write transfers.
ResponseText(pageid) == <<"{parse:", pageid, "}">>

\* str(exception) of what a task can raise.
ClientErrorMessage(pageid) == "Cannot connect to host for pageid " \o pageid
OpenErrorMessage(path) == "[Errno 13] Permission denied: '" \o path \o "'"
WriteErrorMessage(path) == "[Errno 28] No space left on device: '" \o path \o "'"

WikiApiUrl(lang) == "https://" \o lang \o ".wikipedia.org/w/api.php"

\* os.path.join(dirpath, filename) for a relative filename and a dirpath
\* without trailing separator.
PathJoin(dirpath, filename) == dirpath \o "/" \o filename

\* The path without the ".json" suffix.
_get_filepath_in_place(params_dict, dirpath) ==
    PathJoin(dirpath, params_dict.pageid)

\* os.path.join(dirpath, f"{params_dict['pageid']}.json")
_get_filepath(params_dict, dirpath) ==
    PathJoin(dirpath, params_dict.pageid \o ".json")

\* The maximum number of random articles one request may ask for.
wikipedia_max == 500

\* The titles an article can come back with (a page can be renamed between
\* two calls).
Titles == {"A", "B"}

\* An element of json["query"]["random"].
Item(id, title) == [id |-> id, title |-> title]

Items == {Item(id, title) : id \in Ids, title \in Titles}

\* The elements of the list chunk returns: a Python value by its type and
\* its decimal text (what f"{value}" gives for an int and for a str of
\* digits alike).
PyInt(n) == [type |-> "int", text |-> ToString(n)]
PyStr(s) == [type |-> "str", text |-> s]

\* The number a decimal text stands for, for the numbers a run can meet.
Decimals ==
    LET numbers == 0..((MaxChunks + 1) * wikipedia_max)
    IN [s \in {ToString(n) : n \in numbers} |->
            CHOOSE n \in numbers : ToString(n) = s]

DecimalValue(s) == Decimals[s]

\* chunk with the remainder chunk left out.
chunk_without_remainder(total, chunksize) ==
    IF chunksize > total THEN <<PyInt(total)>>
    ELSE [i \in 1..(total \div chunksize) |-> PyStr(ToString(chunksize))]

\* chunk(total, chunksize), for total >= 0 and chunksize > 0.
chunk(total, chunksize) ==
    IF chunksize > total THEN <<PyInt(total)>>
    ELSE LET factor == total \div chunksize
             modulo == total % chunksize
             product == factor * chunksize
             chunk_list == [i \in 1..factor |-> PyStr(ToString(chunksize))]
         IN IF modulo > 0
            THEN Append(chunk_list, PyStr(ToString(total - product)))
            ELSE chunk_list

\* The request get_random_wikipedia_article_ids_by_lang sends.
RandomRequest(lang, request_number) ==
    [api_url |-> WikiApiUrl(lang), rnlimit |-> request_number.text]

\* Every answer is taken for a success.
ResponseOkAnyStatus(status_code) == TRUE

\* res.status_code == 200
ResponseOk(status_code) == status_code = HTTP_OK

\* The dict filled with setdefault: the first title of an id is kept.
ArticleDictFirstTitle(items) ==
    LET firsts == SelectSeq([k \in 1..Len(items) |-> <<k, items[k]>>],
                            LAMBDA e : \A j \in 1..(e[1] - 1) : items[j].id # e[2].id)
    IN [k \in 1..Len(firsts) |-> firsts[k][2]]

\* A list in place of the dict: one entry per item, duplicates kept.
ArticleDictPerItem(items) == items

\* article_dict of main after the loop over random_list, as the entries in
\* insertion order: an id enters at its first occurrence (a dict keeps
\* insertion order) and a later occurrence overwrites its title.
RECURSIVE ArticleDict(_)
ArticleDict(items) ==
    IF items = <<>> THEN <<>>
    ELSE LET front == ArticleDict(SubSeq(items, 1, Len(items) - 1))
             last == items[Len(items)]
         IN IF \E k \in DOMAIN front : front[k].id = last.id
            THEN [k \in DOMAIN front |->
                    IF front[k].id = last.id THEN last ELSE front[k]]
            ELSE Append(front, last)

\* The keys of article_dict, in iteration order.
ArticleDictKeys(items) ==
    LET d == ArticleDict(items) IN [k \in DOMAIN d |-> d[k].id]

generate_content_url_list(lang, keys) ==
    [i \in 1..Len(keys) |->
        [api_url |-> WikiApiUrl(lang), params |-> [pageid |-> ToString(keys[i])]]]

\* asyncio.ensure_future(async_fetch_and_write(session, url, dirpath)):
\* a task that has not run yet.
NewTask(url) ==
    [url |-> url, pc |-> "fetch", status |-> 0, text |-> None,
     exception |-> None, result |-> NoResult]

MLRes(url, params, filepath, http_status, write_success) ==
    [url |-> url, params |-> params, filepath |-> filepath,
     http_status |-> http_status, write_success |-> write_success]

Finished(t) == t.pc = "done"
Raised(t) == Finished(t) /\ t.exception # None
Returned(t) == Finished(t) /\ t.exception = None

FileExists(d, path) == path \in DOMAIN d

\* open(path, "w"): creates the file, or truncates it.
OpenForWrite(d, path) == [p \in DOMAIN d \cup {path} |-> IF p = path THEN <<>> ELSE d[p]]

\* f.write(text) on the file just opened.
WriteText(d, path, text) == [d EXCEPT ![path] = text]

\* await asyncio.gather(*tasks) with return_exceptions=False: the first
\* exception of a task ends the wait.
GatherDoneFirstException(ts) ==
    \/ \A i \in DOMAIN ts : Finished(ts[i])
    \/ \E i \in DOMAIN ts : Raised(ts[i])

\* await asyncio.gather(*tasks, return_exceptions=True) is over.
GatherDone(ts) == \A i \in DOMAIN ts : Finished(ts[i])

\* The message with the filepath of the outcome in place of its pageid.
StatusErrorMessageWrongId(res) ==
    "failed to pull '" \o res.url \o "' with ID " \o res.filepath
        \o ": HTTP status code " \o ToString(res.http_status)

\* The message of the AIOError raised for an outcome with a status other
\* than 200.
StatusErrorMessage(res) ==
    "failed to pull '" \o res.url \o "' with ID " \o res.params.pageid
        \o ": HTTP status code " \o ToString(res.http_status)

\* Exceptions before statuses: two scans of the task list.
InspectTasksExceptionsFirst(ts) ==
    IF \E i \in DOMAIN ts : ts[i].exception # None
    THEN LET i == CHOOSE i \in DOMAIN ts :
                    /\ ts[i].exception # None
                    /\ \A j \in 1..(i - 1) : ts[j].exception = None
         IN ts[i].exception
    ELSE IF \E i \in DOMAIN ts : ts[i].result.http_status # HTTP_OK
    THEN LET i == CHOOSE i \in DOMAIN ts :
                    /\ ts[i].result.http_status # HTTP_OK
                    /\ \A j \in 1..(i - 1) : ts[j].result.http_status = HTTP_OK
         IN StatusErrorMessage(ts[i].result)
    ELSE None

\* The loop of async_fetch_files over the finished tasks: the message of the
\* AIOError it raises, or None when it falls through.
RECURSIVE InspectFrom(_, _)
InspectFrom(ts, k) ==
    IF k > Len(ts) THEN None
    ELSE IF ts[k].exception # None THEN ts[k].exception
    ELSE IF ts[k].result.http_status # HTTP_OK THEN StatusErrorMessage(ts[k].result)
    ELSE InspectFrom(ts, k + 1)

InspectTasks(ts) == InspectFrom(ts, 1)

\* main, lines 215-224, and create_async_get_request_session_and_run up to
\* the gather: the request list is built and one task per request is created.
BuildAndLaunch ==
    /\ fpc = "main"
    /\ article_dict' = ArticleDict(random_list)
    /\ url_list' = generate_content_url_list(LANG, ArticleDictKeys(random_list))
    /\ tasks' = [i \in 1..Len(url_list') |-> NewTask(url_list'[i])]
    /\ fpc' = "gather"
    /\ UNCHANGED <<random_list, opened, aio_error, exit_code, disk, cull_vars,
                   acquire_vars, clean_vars>>

\* async_fetch of task i: the GET raises, or answers a status (and, for 200,
\* the body).
Fetch(i) ==
    /\ fpc = "gather"
    /\ i \in DOMAIN tasks
    /\ tasks[i].pc = "fetch"
    /\ LET pageid == tasks[i].url.params.pageid IN
       \/ tasks' = [tasks EXCEPT ![i].pc = "done",
                                 ![i].exception = ClientErrorMessage(pageid)]
       \/ \E status \in StatusCodes :
            IF status # HTTP_OK
            THEN tasks' = [tasks EXCEPT
                    ![i].pc = "done",
                    ![i].status = status,
                    ![i].result = MLRes(tasks[i].url.api_url, tasks[i].url.params,
                                        None, status, FALSE)]
            ELSE tasks' = [tasks EXCEPT
                    ![i].pc = "open",
                    ![i].status = status,
                    ![i].text = ResponseText(pageid)]
    /\ UNCHANGED <<random_list, article_dict, url_list, opened, fpc,
                   aio_error, exit_code, disk, cull_vars, acquire_vars,
                   clean_vars>>

\* async_write_text of task i, aiofiles.open(path, "w"): raises and leaves
\* the directory alone, or creates the empty file.
Open(i) ==
    /\ fpc = "gather"
    /\ i \in DOMAIN tasks
    /\ tasks[i].pc = "open"
    /\ opened' = opened \cup {i}
    /\ LET filepath == _get_filepath(tasks[i].url.params, TARGETDIR) IN
       \/ /\ tasks' = [tasks EXCEPT ![i].pc = "done",
                                    ![i].exception = OpenErrorMessage(filepath)]
          /\ disk' = disk
       \/ /\ tasks' = [tasks EXCEPT ![i].pc = "write"]
          /\ disk' = OpenForWrite(disk, filepath)
    /\ UNCHANGED <<random_list, article_dict, url_list, fpc, aio_error,
                   exit_code, cull_vars, acquire_vars, clean_vars>>

\* async_write_text of task i, f.write(text) and the close: the write
\* raises and leaves a proper prefix of the text in the file, or the whole
\* text is in the file and the task returns its MLRes.
Write(i) ==
    /\ fpc = "gather"
    /\ i \in DOMAIN tasks
    /\ tasks[i].pc = "write"
    /\ LET filepath == _get_filepath(tasks[i].url.params, TARGETDIR) IN
       \/ \E k \in 0..(Len(tasks[i].text) - 1) :
            /\ tasks' = [tasks EXCEPT ![i].pc = "done",
                                      ![i].exception = WriteErrorMessage(filepath)]
            /\ disk' = WriteText(disk, filepath, SubSeq(tasks[i].text, 1, k))
       \/ /\ tasks' = [tasks EXCEPT
                ![i].pc = "done",
                ![i].result = MLRes(tasks[i].url.api_url, tasks[i].url.params,
                                    filepath, tasks[i].status, TRUE)]
          /\ disk' = WriteText(disk, filepath, tasks[i].text)
    /\ UNCHANGED <<random_list, article_dict, url_list, opened, fpc,
                   aio_error, exit_code, cull_vars, acquire_vars, clean_vars>>

\* The gather of create_async_get_request_session_and_run is over and
\* run_until_complete hands the tasks to async_fetch_files.
GatherJoin ==
    /\ fpc = "gather"
    /\ GatherDone(tasks)
    /\ fpc' = "inspect"
    /\ UNCHANGED <<random_list, article_dict, url_list, tasks, opened,
                   aio_error, exit_code, disk, cull_vars, acquire_vars,
                   clean_vars>>

\* The loop of async_fetch_files over the tasks.
Inspect ==
    /\ fpc = "inspect"
    /\ aio_error' = InspectTasks(tasks)
    /\ fpc' = IF aio_error' # None THEN "raised" ELSE "returned"
    /\ UNCHANGED <<random_list, article_dict, url_list, tasks, opened,
                   exit_code, disk, cull_vars, acquire_vars, clean_vars>>

\* main: the except clause exits with 1, the normal path ends with 0.
MainExit ==
    /\ fpc \in {"raised", "returned"}
    /\ exit_code' = IF fpc = "raised" THEN 1 ELSE 0
    /\ fpc' = "exit"
    /\ UNCHANGED <<random_list, article_dict, url_list, tasks, opened,
                   aio_error, disk, cull_vars, acquire_vars, clean_vars>>

\* main, lines 197-204: the count is chunked at the API maximum.
MainChunk ==
    /\ fpc = "start"
    /\ chunked_article_numbers' = chunk(number, wikipedia_max)
    /\ cidx' = 1
    /\ fpc' = "acquire"
    /\ UNCHANGED <<number, calls, random_list, article_dict, url_list, tasks,
                   opened, aio_error, exit_code, disk, cull_vars, clean_vars>>

\* One iteration of the loop of main, lines 210-213:
\* get_random_wikipedia_article_ids_by_lang for the next chunk.  A 200 answer
\* carries at most rnlimit items, which extend random_list; any other status
\* ends in sys.exit(1), a SystemExit that the except Exception clause of main
\* does not catch.
GetRandomIds ==
    /\ fpc = "acquire"
    /\ cidx \in DOMAIN chunked_article_numbers
    /\ LET chunk_number == chunked_article_numbers[cidx]
           limit == DecimalValue(chunk_number.text)
           room == MaxItems - Len(random_list)
       IN \E status_code \in StatusCodes :
             /\ calls' = Append(calls, [request |-> RandomRequest(LANG, chunk_number),
                                        status_code |-> status_code])
             /\ IF ResponseOk(status_code)
                THEN /\ \E random \in SeqUpTo(Items, IF limit < room THEN limit ELSE room) :
                          random_list' = random_list \o random
                     /\ cidx' = cidx + 1
                     /\ fpc' = IF cidx' \in DOMAIN chunked_article_numbers
                               THEN "acquire" ELSE "main"
                     /\ UNCHANGED exit_code
                ELSE /\ fpc' = "exit"
                     /\ exit_code' = 1
                     /\ UNCHANGED <<random_list, cidx>>
    /\ UNCHANGED <<number, chunked_article_numbers, article_dict, url_list,
                   tasks, opened, aio_error, disk, cull_vars, clean_vars>>

\* No text is being cleaned.
CleanIdle ==
    /\ input_text = <<>>
    /\ cleaned = <<None>>
    /\ recleaned = <<None>>

CullIdle ==
    /\ lang_tag = None
    /\ run = 0
    /\ cpc = "idle"
    /\ start_disk = <<>>
    /\ filepaths = <<>>
    /\ idx = 0
    /\ remove_path_list = <<>>
    /\ ridx = 0
    /\ stub_file_count = 0
    /\ empty_content_count = 0
    /\ below_content_size_count = 0
    /\ cull_result = None
    /\ cull_error = None
    /\ start_filepath_count = 0
    /\ remaining_files = 0
    /\ stdout = <<>>
    /\ log = <<>>

\* The values of NUMBER: the small ones, and the ones around the multiples
\* of the API maximum.
Numbers ==
    (0..MaxItems) \cup {k * wikipedia_max + d : k \in 1..MaxChunks, d \in {-1, 0, 1}}

\* A collection run into an empty target directory, from the start of main.
InitAcquire ==
    /\ number \in Numbers
    /\ chunked_article_numbers = <<>>
    /\ cidx = 0
    /\ calls = <<>>
    /\ random_list = <<>>
    /\ article_dict = <<>>
    /\ url_list = <<>>
    /\ tasks = <<>>
    /\ opened = {}
    /\ fpc = "start"
    /\ aio_error = None
    /\ exit_code = None
    /\ disk = <<>>
    /\ CullIdle
    /\ CleanIdle

\* main up to the launch of the item tasks; SpecFetch carries on from there.
NextAcquire ==
    \/ MainChunk
    \/ GetRandomIds
    \/ BuildAndLaunch

SpecAcquire == InitAcquire /\ [][NextAcquire]_vars

\* A collection run into an empty target directory, from the point where
\* every random-id call has answered: random_list holds what they returned.
InitFetch ==
    /\ number = 0
    /\ chunked_article_numbers = <<>>
    /\ cidx = 0
    /\ calls = <<>>
    /\ random_list \in SeqUpTo({Item(id, "A") : id \in Ids}, MaxItems)
    /\ article_dict = <<>>
    /\ url_list = <<>>
    /\ tasks = <<>>
    /\ opened = {}
    /\ fpc = "main"
    /\ aio_error = None
    /\ exit_code = None
    /\ disk = <<>>
    /\ CullIdle
    /\ CleanIdle

NextFetch ==
    \/ BuildAndLaunch
    \/ \E i \in 1..MaxItems : Fetch(i)
    \/ \E i \in 1..MaxItems : Open(i)
    \/ \E i \in 1..MaxItems : Write(i)
    \/ GatherJoin
    \/ Inspect
    \/ MainExit

SpecFetch == InitFetch /\ [][NextFetch]_vars

(***************************************************************************)
(* Texts are sequences of characters; a character is a one-character       *)
(* string. NoContent stands for Python's None where a text is expected: a  *)
(* one-element sequence whose element is no character.                     *)
(***************************************************************************)
NoContent == <<None>>

Rep(c, n) == [i \in 1..n |-> c]

RECURSIVE Join(_, _)
\* sep.join(parts)
Join(parts, sep) ==
    IF parts = <<>> THEN <<>>
    ELSE IF Len(parts) = 1 THEN parts[1]
    ELSE parts[1] \o sep \o Join(Tail(parts), sep)

\* \d, for the ASCII digits.
Digits == {"0", "1", "2", "3", "4", "5", "6", "7", "8", "9"}

\* Characters whose UTF-8 encoding takes two bytes.
TwoByteChars == {"é", "ק", "צ", "ר", "מ"}

\* utils/strutils.py: len(s.encode("utf-8")), one byte for each character
\* and one more for each two-byte character.
utf8len(s) == Len(s) + Cardinality({i \in DOMAIN s : s[i] \in TwoByteChars})

\* s has the literal lit at position i: the length of lit, or 0.
LiteralMatch(s, i, lit) ==
    IF /\ i + Len(lit) - 1 <= Len(s)
       /\ \A k \in 1..Len(lit) : s[i + k - 1] = lit[k]
    THEN Len(lit) ELSE 0

\* The length of the match of WIKI_REF_RE = \[\d{1,3}\] at position i of s,
\* or 0 when it does not match there.
WikiRefMatch(s, i) ==
    IF i > Len(s) \/ s[i] # "[" THEN 0
    ELSE IF \E n \in 1..3 :
                /\ i + n + 1 <= Len(s)
                /\ \A k \in 1..n : s[i + k] \in Digits
                /\ s[i + n + 1] = "]"
    THEN 2 + CHOOSE n \in 1..3 :
                /\ i + n + 1 <= Len(s)
                /\ \A k \in 1..n : s[i + k] \in Digits
                /\ s[i + n + 1] = "]"
    ELSE 0

\* s without the matches a left-to-right scan takes (str.replace(lit, "")
\* and re.sub(pattern, "", s)): matchlen[i] is the length of the match at
\* position i, at most maxlen, or 0. A match is taken when no match taken
\* before it reaches into it.
RemoveMatches(s, matchlen, maxlen) ==
    LET RECURSIVE Taken(_)
        Taken(i) ==
            /\ i >= 1
            /\ matchlen[i] > 0
            /\ \A j \in (i - maxlen + 1)..(i - 1) :
                    ~(j >= 1 /\ j + matchlen[j] > i /\ Taken(j))
        Removed(i) ==
            \E j \in (i - maxlen + 1)..i : Taken(j) /\ j + matchlen[j] > i
        indexed == [i \in DOMAIN s |-> <<i, s[i]>>]
        Kept(pair) == ~Removed(pair[1])
        kept == SelectSeq(indexed, Kept)
    IN [k \in DOMAIN kept |-> kept[k][2]]

\* text.replace(lit, "")
RemoveLiteral(text, lit) ==
    RemoveMatches(text, [i \in DOMAIN text |-> LiteralMatch(text, i, lit)], Len(lit))

\* re.sub(WIKI_REF_RE, "", text)
RemoveWikiRefs(text) ==
    RemoveMatches(text, [i \in DOMAIN text |-> WikiRefMatch(text, i)], 5)

EditMark == <<"[", "e", "d", "i", "t", "]">>
CitationNeededMark ==
    <<"[", "c", "i", "t", "a", "t", "i", "o", "n", " ", "n", "e", "e", "d", "e", "d", "]">>

\* text.replace(lit, "", 1): the first occurrence only.
RemoveFirstLiteral(text, lit) ==
    LET starts == {i \in DOMAIN text : LiteralMatch(text, i, lit) > 0}
    IN IF starts = {} THEN text
       ELSE LET first == CHOOSE i \in starts : \A j \in starts : i <= j
            IN SubSeq(text, 1, first - 1) \o SubSeq(text, first + Len(lit), Len(text))

\* The cleaner with the first "[edit]" removed only.
clean_wikipedia_first_edit_only(text) ==
    LET no_edit == RemoveFirstLiteral(text, EditMark)
        no_refs == RemoveWikiRefs(no_edit)
    IN RemoveLiteral(no_refs, CitationNeededMark)

\* The cleaner without its last removal.
clean_wikipedia_without_citation(text) ==
    RemoveWikiRefs(RemoveLiteral(text, EditMark))

\* preprocessing/cleaners.py
clean_wikipedia(text) ==
    LET no_edit == RemoveLiteral(text, EditMark)
        no_refs == RemoveWikiRefs(no_edit)
    IN RemoveLiteral(no_refs, CitationNeededMark)

(***************************************************************************)
(* culler.py                                                               *)
(***************************************************************************)
WIKI_STUB_TITLES == [en |-> "Wikipedia:Stub", he |-> "ויקיפדיה:קצרמר"]

\* The language tags a run is started with; "fr" is not in the table.
LangTags == {"en", "he", "fr"}

CONTENT_SIZE_THRESHOLD == 275

\* A document file: `json` says whether the text is JSON ("ok"), JSON
\* without the parse.text payload ("nokey") or no JSON at all ("invalid");
\* the markup of parse.text is held as what the HTML parser finds in it:
\* the title attributes of its <a> elements and the text of its <p>
\* elements in document order.
Html(titles, paras) == [a_titles |-> titles, p_texts |-> paras]
JsonDoc(html) == [json |-> "ok", html |-> html]

\* The file contents the directory can hold, by name.
Documents ==
    [stub_short |-> JsonDoc(Html({"Wikipedia:Stub"}, <<Rep("a", 10)>>)),
     stub_long |-> JsonDoc(Html({"Wikipedia:Stub", "Help:Contents"},
                                <<Rep("a", 200), Rep("b", 100)>>)),
     stub_empty |-> JsonDoc(Html({"Wikipedia:Stub"}, <<>>)),
     he_stub |-> JsonDoc(Html({"ויקיפדיה:קצרמר"}, <<Rep("ק", 150)>>)),
     empty |-> JsonDoc(Html({"Help:Contents"}, <<>>)),
     short |-> JsonDoc(Html({}, <<Rep("a", 100), Rep("b", 173)>>)),
     long |-> JsonDoc(Html({}, <<Rep("a", 100), Rep("b", 174)>>)),
     refs |-> JsonDoc(Html({}, <<Rep("a", 270) \o <<"[", "1", "2", "]">> \o EditMark
                                    \o CitationNeededMark>>)),
     invalid |-> [json |-> "invalid", html |-> Html({}, <<>>)],
     nokey |-> [json |-> "nokey", html |-> Html({}, <<>>)]]

DocNames == DOMAIN Documents

\* parsers/html.py
parse_html_p_content(html_text) ==
    IF Len(html_text.p_texts) > 0 THEN Join(html_text.p_texts, <<"\n">>)
    ELSE NoContent

\* The marker of "en" taken for a tag the table does not hold.
is_exclusion_stub_default_en(html_text, tag) ==
    LET title == IF tag \in DOMAIN WIKI_STUB_TITLES THEN WIKI_STUB_TITLES[tag]
                 ELSE WIKI_STUB_TITLES["en"]
    IN title \in html_text.a_titles

is_exclusion_stub(html_text, tag) ==
    /\ tag \in DOMAIN WIKI_STUB_TITLES
    /\ WIKI_STUB_TITLES[tag] \in html_text.a_titles

is_exclusion_empty_content(parsed_p_tag_content) ==
    parsed_p_tag_content = NoContent

\* The threshold itself counted as below the size.
is_exclusion_content_size_inclusive(parsed_p_tag_content) ==
    utf8len(clean_wikipedia(parsed_p_tag_content)) <= CONTENT_SIZE_THRESHOLD

is_exclusion_content_size(parsed_p_tag_content) ==
    utf8len(clean_wikipedia(parsed_p_tag_content)) < CONTENT_SIZE_THRESHOLD

\* The size criterion first, then stub and empty.
ClassifySizeFirst(html_text, tag) ==
    LET parsed_p_tag_content == parse_html_p_content(html_text) IN
    IF parsed_p_tag_content # NoContent
       /\ is_exclusion_content_size(parsed_p_tag_content)
    THEN [verdict |-> "below_size", evaluated |-> <<"below_size">>]
    ELSE IF is_exclusion_stub(html_text, tag)
    THEN [verdict |-> "stub", evaluated |-> <<"below_size", "stub">>]
    ELSE IF is_exclusion_empty_content(parsed_p_tag_content)
    THEN [verdict |-> "empty", evaluated |-> <<"below_size", "stub", "empty">>]
    ELSE [verdict |-> "none", evaluated |-> <<"below_size", "stub", "empty">>]

\* The body of the classification loop of remove_files for one document:
\* the criterion that matched ("none": the document is kept) and the
\* criteria that were evaluated, in order.
Classify(html_text, tag) ==
    IF is_exclusion_stub(html_text, tag)
    THEN [verdict |-> "stub", evaluated |-> <<"stub">>]
    ELSE LET parsed_p_tag_content == parse_html_p_content(html_text) IN
         IF is_exclusion_empty_content(parsed_p_tag_content)
         THEN [verdict |-> "empty", evaluated |-> <<"stub", "empty">>]
         ELSE IF is_exclusion_content_size(parsed_p_tag_content)
         THEN [verdict |-> "below_size", evaluated |-> <<"stub", "empty", "below_size">>]
         ELSE [verdict |-> "none", evaluated |-> <<"stub", "empty", "below_size">>]

\* What the classification loop finds for each document and language tag.
Verdicts == [d \in DocNames |-> [tag \in LangTags |-> Classify(Documents[d].html, tag)]]

DocPath(k) == PathJoin(TARGETDIR, ToString(k) \o ".json")

\* The orders in which glob can list the files of a directory.
Listings(d) ==
    {fps \in [1..Cardinality(DOMAIN d) -> DOMAIN d] :
        \A i, j \in DOMAIN fps : i # j => fps[i] # fps[j]}

\* A removal that empties the directory.
RemoveDirectory(d, path) == <<>>

\* A removal that leaves the file in place.
RemoveKept(d, path) == d

\* os.remove(path), succeeding.
Remove(d, path) == [p \in DOMAIN d \ {path} |-> d[p]]

\* The removal loop nested in the classification loop: removals may start
\* once the first document is classified.
ClassificationCompleteAfterFirst(i, fps) == i > 1

\* The for loop over filepaths is exhausted.
ClassificationComplete(i, fps) == i > Len(fps)

LogEntry(op, path, arg) == [op |-> op, path |-> path, arg |-> arg]

\* The lines remove_files prints for the counts that are not zero.
ReportLines(stubs, empties, smalls) ==
    (IF stubs > 0 THEN <<<<"stub articles", stubs>>>> ELSE <<>>)
    \o (IF empties > 0 THEN <<<<"empty content articles", empties>>>> ELSE <<>>)
    \o (IF smalls > 0 THEN <<<<"articles below content size criterion", smalls>>>> ELSE <<>>)

\* A total that leaves out the below-size count.
ReturnValueSumOfTwo(stubs, empties, smalls) == [total |-> stubs + empties]

\* The value remove_files returns: removed_file_count alone.
ReturnValue(stubs, empties, smalls) == [total |-> stubs + empties + smalls]

\* culler main up to the call of cull: the directory is listed and
\* remove_files starts with empty counts.
CullStart ==
    /\ cpc \in {"idle", "done"}
    /\ run < MaxRuns
    /\ run' = run + 1
    /\ \E fps \in Listings(disk) : filepaths' = fps
    /\ start_filepath_count' = Len(filepaths')
    /\ start_disk' = disk
    /\ idx' = 1
    /\ ridx' = 1
    /\ remove_path_list' = <<>>
    /\ stub_file_count' = 0
    /\ empty_content_count' = 0
    /\ below_content_size_count' = 0
    /\ cull_result' = None
    /\ stdout' = <<>>
    /\ log' = <<>>
    /\ cpc' = "remove_files"
    /\ UNCHANGED <<acquire_vars, fetch_vars, clean_vars, disk, lang_tag,
                   cull_error, remaining_files>>

\* One iteration of the classification loop: the file is read, parsed as
\* JSON, and classified. A failing read, a text that is no JSON and a JSON
\* without parse.text raise out of remove_files.
ReadAndClassify ==
    /\ cpc = "remove_files"
    /\ idx <= Len(filepaths)
    /\ LET filepath == filepaths[idx] IN
       \/ /\ cpc' = "error"
          /\ cull_error' = "OSError"
          /\ log' = Append(log, LogEntry("read", filepath, "failed"))
          /\ UNCHANGED <<idx, remove_path_list, stub_file_count,
                         empty_content_count, below_content_size_count>>
       \/ /\ FileExists(disk, filepath)
          /\ LET doc == Documents[disk[filepath]]
                 c == Verdicts[disk[filepath]][lang_tag]
                 evals == [k \in 1..Len(c.evaluated) |->
                              LogEntry("eval", filepath, c.evaluated[k])]
             IN IF doc.json # "ok"
                THEN /\ cpc' = "error"
                     /\ cull_error' = IF doc.json = "invalid" THEN "JSONDecodeError"
                                      ELSE "KeyError"
                     /\ log' = Append(log, LogEntry("read", filepath, "ok"))
                     /\ UNCHANGED <<idx, remove_path_list, stub_file_count,
                                    empty_content_count, below_content_size_count>>
                ELSE /\ cpc' = cpc
                     /\ cull_error' = cull_error
                     /\ idx' = idx + 1
                     /\ remove_path_list' =
                            IF c.verdict = "none" THEN remove_path_list
                            ELSE Append(remove_path_list, filepath)
                     /\ stub_file_count' =
                            stub_file_count + (IF c.verdict = "stub" THEN 1 ELSE 0)
                     /\ empty_content_count' =
                            empty_content_count + (IF c.verdict = "empty" THEN 1 ELSE 0)
                     /\ below_content_size_count' =
                            below_content_size_count
                                + (IF c.verdict = "below_size" THEN 1 ELSE 0)
                     /\ log' = Append(log, LogEntry("read", filepath, "ok")) \o evals
                                \o (IF c.verdict = "none" THEN <<>>
                                    ELSE <<LogEntry("count", filepath, c.verdict)>>)
    /\ UNCHANGED <<acquire_vars, fetch_vars, clean_vars, disk, lang_tag, run,
                   start_disk, filepaths, ridx, cull_result,
                   start_filepath_count, remaining_files, stdout>>

\* One iteration of the removal loop: os.remove of the next path of
\* remove_path_list; its exception raises out of remove_files.
RemoveStep ==
    /\ cpc = "remove_files"
    /\ ClassificationComplete(idx, filepaths)
    /\ ridx <= Len(remove_path_list)
    /\ LET remove_filepath == remove_path_list[ridx] IN
       \/ /\ cpc' = "error"
          /\ cull_error' = "OSError"
          /\ log' = Append(log, LogEntry("remove", remove_filepath, "failed"))
          /\ UNCHANGED <<disk, ridx>>
       \/ /\ FileExists(disk, remove_filepath)
          /\ disk' = Remove(disk, remove_filepath)
          /\ ridx' = ridx + 1
          /\ log' = Append(log, LogEntry("remove", remove_filepath, "ok"))
          /\ UNCHANGED <<cpc, cull_error>>
    /\ UNCHANGED <<acquire_vars, fetch_vars, clean_vars, lang_tag, run,
                   start_disk, filepaths, idx, remove_path_list,
                   stub_file_count, empty_content_count,
                   below_content_size_count, cull_result,
                   start_filepath_count, remaining_files, stdout>>

\* remove_files, lines 103-116, and cull: the counts are printed and their
\* sum is returned.
Return ==
    /\ cpc = "remove_files"
    /\ ClassificationComplete(idx, filepaths)
    /\ ridx > Len(remove_path_list)
    /\ stdout' = ReportLines(stub_file_count, empty_content_count,
                             below_content_size_count)
    /\ cull_result' = ReturnValue(stub_file_count, empty_content_count,
                                  below_content_size_count)
    /\ cpc' = "report"
    /\ UNCHANGED <<acquire_vars, fetch_vars, clean_vars, disk, lang_tag, run,
                   start_disk, filepaths, idx, remove_path_list, ridx,
                   stub_file_count, empty_content_count,
                   below_content_size_count, cull_error, start_filepath_count,
                   remaining_files, log>>

\* culler main after cull: the files left in the directory are counted.
MainReport ==
    /\ cpc = "report"
    /\ remaining_files' = Cardinality(DOMAIN disk)
    /\ cpc' = "done"
    /\ UNCHANGED <<acquire_vars, fetch_vars, clean_vars, disk, lang_tag, run,
                   start_disk, filepaths, idx, remove_path_list, ridx,
                   stub_file_count, empty_content_count,
                   below_content_size_count, cull_result, cull_error,
                   start_filepath_count, stdout, log>>

FetchIdle ==
    /\ number = 0
    /\ chunked_article_numbers = <<>>
    /\ cidx = 0
    /\ calls = <<>>
    /\ random_list = <<>>
    /\ article_dict = <<>>
    /\ url_list = <<>>
    /\ tasks = <<>>
    /\ opened = {}
    /\ fpc = "idle"
    /\ aio_error = None
    /\ exit_code = None

\* A directory of at most MaxFiles documents and a language tag.
InitCull ==
    /\ FetchIdle
    /\ CleanIdle
    /\ \E n \in 0..MaxFiles : disk \in [{DocPath(k) : k \in 1..n} -> DocNames]
    /\ lang_tag \in LangTags
    /\ run = 0
    /\ cpc = "idle"
    /\ start_disk = <<>>
    /\ filepaths = <<>>
    /\ idx = 0
    /\ remove_path_list = <<>>
    /\ ridx = 0
    /\ stub_file_count = 0
    /\ empty_content_count = 0
    /\ below_content_size_count = 0
    /\ cull_result = None
    /\ cull_error = None
    /\ start_filepath_count = 0
    /\ remaining_files = 0
    /\ stdout = <<>>
    /\ log = <<>>

NextCull ==
    \/ CullStart
    \/ ReadAndClassify
    \/ RemoveStep
    \/ Return
    \/ MainReport

SpecCull == InitCull /\ [][NextCull]_vars

(***************************************************************************)
(* Properties of the fetch pipeline.                                       *)
(***************************************************************************)
Joined == fpc \in {"inspect", "raised", "returned", "exit"}
Inspected == fpc \in {"raised", "returned", "exit"}

FailedItem(t) == Raised(t) \/ (Returned(t) /\ t.result.http_status # 200)
ExpectedPath(t) == TARGETDIR \o "/" \o t.url.params.pageid \o ".json"
ExpectedStatusError(t) ==
    "failed to pull 'https://en.wikipedia.org/w/api.php' with ID "
        \o t.url.params.pageid \o ": HTTP status code " \o ToString(t.status)

C1_JoinedAllFinished ==
    (Joined \/ aio_error # None) =>
        \A i \in DOMAIN tasks :
            /\ tasks[i].pc = "done"
            /\ (tasks[i].result # NoResult) # (tasks[i].exception # None)

C1_RaiseLeavesSiblings ==
    \A i \in DOMAIN tasks :
        (tasks[i].exception = None /\ i \in DOMAIN tasks' /\ tasks'[i].exception # None)
            => /\ \A j \in DOMAIN tasks : j # i => tasks'[j] = tasks[j]
               /\ fpc' = fpc
               /\ aio_error' = aio_error

\* C1: every item task of the batch has finished, with an outcome or with an
\* exception, before async_fetch_files inspects any of them or raises; a step
\* in which one task raises changes no sibling task and does not reach the
\* pipeline, under every interleaving of the tasks.
C1_GatherCollectsEveryOutcome ==
    []C1_JoinedAllFinished /\ [][C1_RaiseLeavesSiblings]_vars

\* A batch of three is inspected in which the first task raised and the two
\* tasks after it ran to their outcome.
C1_Witness ==
    /\ fpc = "inspect"
    /\ Len(tasks) = 3
    /\ Raised(tasks[1])
    /\ Returned(tasks[2]) /\ tasks[2].result.write_success
    /\ Returned(tasks[3]) /\ tasks[3].result.http_status = 404

\* C2 as stated: after the batch, an exception of any item decides the error;
\* the status error is raised only when no item raised; otherwise the
\* pipeline returns normally.
C2_ExceptionBeforeStatus ==
    Inspected =>
        IF \E i \in DOMAIN tasks : Raised(tasks[i])
        THEN \E i \in DOMAIN tasks : Raised(tasks[i]) /\ aio_error = tasks[i].exception
        ELSE IF \E i \in DOMAIN tasks : tasks[i].status # 200
        THEN \E i \in DOMAIN tasks :
                tasks[i].status # 200 /\ aio_error = ExpectedStatusError(tasks[i])
        ELSE aio_error = None

\* C2, amended: the error raised is that of the first item of the request
\* list that raised or returned a status other than 200 (the exception's
\* message for the former, the id and status for the latter); the pipeline
\* returns normally exactly when there is no such item.
C2_FirstFailedItemDecides ==
    Inspected =>
        LET failed == {i \in DOMAIN tasks : FailedItem(tasks[i])} IN
        IF failed = {} THEN aio_error = None /\ fpc \in {"returned", "exit"}
        ELSE LET k == CHOOSE i \in failed : \A j \in failed : i <= j IN
             /\ fpc \in {"raised", "exit"}
             /\ aio_error = IF Raised(tasks[k]) THEN tasks[k].exception
                            ELSE ExpectedStatusError(tasks[k])

\* A non-200 item precedes an item that raised, and the status error of the
\* former is the one raised.
C2_Witness ==
    /\ fpc = "raised"
    /\ Len(tasks) >= 2
    /\ Returned(tasks[1]) /\ tasks[1].status = 404
    /\ Raised(tasks[2])
    /\ aio_error = ExpectedStatusError(tasks[1])

\* C3: when no item raised and some item returned a status other than 200,
\* the pipeline raises the error naming the id and the status of such an
\* item, and the file of every item that returned 200 is on disk, with its
\* body, when the error is raised.
C3_StatusErrorKeepsWrittenFiles ==
    (/\ Inspected
     /\ \A i \in DOMAIN tasks : ~Raised(tasks[i])
     /\ \E i \in DOMAIN tasks : tasks[i].status # 200)
    => /\ aio_error # None
       /\ \E i \in DOMAIN tasks :
            tasks[i].status # 200 /\ aio_error = ExpectedStatusError(tasks[i])
       /\ \A i \in DOMAIN tasks :
            tasks[i].status = 200 =>
                /\ ExpectedPath(tasks[i]) \in DOMAIN disk
                /\ disk[ExpectedPath(tasks[i])] = ResponseText(tasks[i].url.params.pageid)

\* Three requests, the second answers 404: the error is raised and the files
\* of the first and the third are on disk.
C3_Witness ==
    /\ fpc = "raised"
    /\ Len(tasks) = 3
    /\ tasks[1].status = 200 /\ tasks[2].status = 404 /\ tasks[3].status = 200
    /\ Returned(tasks[1]) /\ Returned(tasks[2]) /\ Returned(tasks[3])
    /\ aio_error = ExpectedStatusError(tasks[2])
    /\ ExpectedPath(tasks[1]) \in DOMAIN disk
    /\ ExpectedPath(tasks[3]) \in DOMAIN disk

\* C4: every outcome of async_fetch_and_write has write_success exactly when
\* its status is 200; with another status it has no filepath and the task
\* opened no file; with status 200 its filepath is {target_dir}/{pageid}.json
\* and that file holds the whole response body. A task whose write raised
\* produced no outcome.
C4_OutcomeShape ==
    \A i \in DOMAIN tasks :
        LET t == tasks[i] IN
        /\ t.result # NoResult =>
            /\ t.result.write_success = (t.result.http_status = 200)
            /\ t.result.http_status = t.status
            /\ t.result.http_status # 200 =>
                /\ t.result.filepath = None
                /\ i \notin opened
            /\ t.result.http_status = 200 =>
                /\ t.result.filepath = ExpectedPath(t)
                /\ i \in opened
                /\ t.result.filepath \in DOMAIN disk
                /\ disk[t.result.filepath] = ResponseText(t.url.params.pageid)
        /\ (t.exception # None /\ t.status = 200) => t.result = NoResult

\* A batch with an outcome of each kind: a persisted 200 and a 404.
C4_Witness ==
    /\ Len(tasks) >= 2
    /\ \E i \in DOMAIN tasks :
        tasks[i].result # NoResult /\ tasks[i].result.write_success
    /\ \E i \in DOMAIN tasks :
        tasks[i].result # NoResult /\ tasks[i].result.http_status = 404

\* C5 as stated: during and after a batch into an empty directory, every
\* file on disk belongs to exactly one item of the batch, one that did not
\* fail, and an item that failed (a status other than 200, or an exception
\* in its fetch or its write) has no file on disk.
C5_FilesAreSuccessfulItems ==
    /\ \A p \in DOMAIN disk :
        Cardinality({i \in DOMAIN tasks :
            ExpectedPath(tasks[i]) = p /\ ~FailedItem(tasks[i])}) = 1
    /\ \A i \in DOMAIN tasks :
        FailedItem(tasks[i]) => ExpectedPath(tasks[i]) \notin DOMAIN disk

(***************************************************************************)
(* Properties of the exclusion filter.                                     *)
(***************************************************************************)
CriteriaOrder == <<"stub", "empty", "below_size">>

\* The entries of the log with operation op on path p, in order.
LogOf(op, p) ==
    LET Is(e) == e.op = op /\ e.path = p IN SelectSeq(log, Is)

LogCount(op, arg) ==
    Cardinality({k \in DOMAIN log : log[k].op = op /\ log[k].arg = arg})

\* Whether a criterion, taken alone, matches a markup under a language tag.
CriterionMatches(html_text, tag, criterion) ==
    LET content == parse_html_p_content(html_text) IN
    CASE criterion = "stub" ->
            /\ tag \in {"en", "he"}
            /\ WIKI_STUB_TITLES[tag] \in html_text.a_titles
      [] criterion = "empty" -> Len(html_text.p_texts) = 0
      [] criterion = "below_size" ->
            /\ Len(html_text.p_texts) > 0
            /\ utf8len(clean_wikipedia(content)) < 275

MatchTable ==
    [d \in DocNames |-> [tag \in LangTags |-> [criterion \in Range(CriteriaOrder) |->
        CriterionMatches(Documents[d].html, tag, criterion)]]]

\* The same for a document of the directory the run started on.
Matches(p, criterion) == MatchTable[start_disk[p]][lang_tag][criterion]

\* C6: for each document the criteria are evaluated in the order stub,
\* empty, below-size and evaluation stops at the first that matches; the
\* document is counted at most once, under the criterion evaluated last, and
\* a document matching the stub and the below-size criterion is counted as a
\* stub after the stub criterion alone was evaluated.
C6_OrderedShortCircuit ==
    /\ \A p \in Range(filepaths) :
        LET evals == LogOf("eval", p)
            counts == LogOf("count", p)
        IN /\ Len(evals) <= 3
           /\ \A k \in DOMAIN evals : evals[k].arg = CriteriaOrder[k]
           /\ \A k \in 1..(Len(evals) - 1) : ~Matches(p, evals[k].arg)
           /\ Len(counts) <= 1
           /\ counts # <<>> =>
                /\ counts[1].arg = evals[Len(evals)].arg
                /\ Matches(p, counts[1].arg)
           /\ (evals # <<>> /\ counts = <<>>) =>
                /\ Len(evals) = 3
                /\ ~Matches(p, evals[3].arg)
           /\ (/\ evals # <<>>
               /\ Matches(p, "stub")
               /\ Matches(p, "below_size")) =>
                /\ Len(evals) = 1
                /\ counts # <<>> /\ counts[1].arg = "stub"
    /\ stub_file_count = LogCount("count", "stub")
    /\ empty_content_count = LogCount("count", "empty")
    /\ below_content_size_count = LogCount("count", "below_size")
    /\ Len(remove_path_list)
        = stub_file_count + empty_content_count + below_content_size_count

\* A run with tag "en" ended on a directory holding the short stub (it
\* matches the stub and the below-size criterion): it is counted as a stub.
C6_Witness ==
    /\ cpc = "report"
    /\ lang_tag = "en"
    /\ \E p \in DOMAIN start_disk :
        /\ start_disk[p] = "stub_short"
        /\ LogOf("count", p) # <<>>
    /\ stub_file_count >= 1
    /\ below_content_size_count = 0

\* C7: in one run every os.remove comes after the last read and the last
\* classification: the directory is the one the run started on until the
\* classification loop is over, and each document is classified on the
\* content it had at the start.
C7_DeletionsAfterClassification ==
    /\ \A i, j \in DOMAIN log :
        (i < j /\ log[i].op = "remove") => log[j].op = "remove"
    /\ (cpc = "remove_files" /\ idx <= Len(filepaths)) => disk = start_disk
    /\ (\E k \in DOMAIN log : log[k].op = "remove") =>
        /\ idx = Len(filepaths) + 1
        /\ \A p \in Range(filepaths) : LogOf("read", p) # <<>>

\* Two documents were listed, the first was classified as excluded and is
\* deleted, after the second was classified.
C7_Witness ==
    /\ cpc = "remove_files"
    /\ Len(filepaths) = 2
    /\ remove_path_list # <<>>
    /\ remove_path_list[1] = filepaths[1]
    /\ filepaths[1] \notin DOMAIN disk
    /\ LogOf("read", filepaths[2]) # <<>>

\* C8: after a run that completes, the number of documents left is the
\* number the run started on minus the total returned; a further run on
\* the documents left, with the same tag, returns 0 and removes nothing.
C8_CountsAddUpAndSecondPassRemovesNothing ==
    cpc = "done" =>
        /\ remaining_files = start_filepath_count - cull_result.total
        /\ remaining_files = Cardinality(DOMAIN disk)
        /\ run >= 2 =>
            /\ cull_result.total = 0
            /\ disk = start_disk
            /\ remaining_files = start_filepath_count

\* The second run is over on a directory from which the first run removed
\* the first document and kept the second.
C8_Witness ==
    /\ cpc = "done"
    /\ run = 2
    /\ DOMAIN disk = {DocPath(2)}
    /\ cull_result.total = 0

\* C9 as stated: when an os.remove of the run failed, the run ends in an
\* error and the deletion of every document classified as excluded was
\* attempted.
C9_FailedDeletionAttemptsTheOthers ==
    (\E k \in DOMAIN log : log[k].op = "remove" /\ log[k].arg = "failed") =>
        /\ cpc = "error"
        /\ \A p \in Range(remove_path_list) : LogOf("remove", p) # <<>>

\* C10 as stated: the value returned holds the count of each criterion and
\* the total.
C10_ReturnsReportWithEachCount ==
    cpc \in {"report", "done"} =>
        /\ DOMAIN cull_result = {"stub", "empty", "below_size", "total"}
        /\ cull_result.total = stub_file_count + empty_content_count
                                + below_content_size_count

\* C10, amended: remove_files and cull return the total alone, the sum of
\* the three counts, which is the number of documents deleted; the counts
\* of the criteria are printed, each when it is not zero. With tag "en" and
\* one document whose markup has an anchor titled "Wikipedia:Stub" the
\* total returned is 1, the stub count is 1 and the other counts are 0.
C10_ReturnsTotalAlone ==
    cpc \in {"report", "done"} =>
        /\ DOMAIN cull_result = {"total"}
        /\ cull_result.total = stub_file_count + empty_content_count
                                + below_content_size_count
        /\ cull_result.total = Cardinality(DOMAIN start_disk \ DOMAIN disk)
        /\ Range(stdout) =
                {line \in {<<"stub articles", stub_file_count>>,
                           <<"empty content articles", empty_content_count>>,
                           <<"articles below content size criterion",
                             below_content_size_count>>} : line[2] > 0}
        /\ (/\ lang_tag = "en"
            /\ DOMAIN start_disk = {DocPath(1)}
            /\ "Wikipedia:Stub" \in Documents[start_disk[DocPath(1)]].html.a_titles) =>
            /\ cull_result.total = 1
            /\ stub_file_count = 1
            /\ empty_content_count = 0
            /\ below_content_size_count = 0
            /\ stdout = <<<<"stub articles", 1>>>>
            /\ disk = <<>>

\* The run with tag "en" on the single stub document has returned.
C10_Witness ==
    /\ cpc = "report"
    /\ lang_tag = "en"
    /\ DOMAIN start_disk = {DocPath(1)}
    /\ start_disk[DocPath(1)] = "stub_long"
    /\ cull_result.total = 1

(***************************************************************************)
(* The cleaner applied to a text, and to its own result (SpecClean).       *)
(***************************************************************************)
\* The pieces the texts are made of: the three markers whole, and the
\* brackets, digits and letters that form markers when put together.
Tokens ==
    {EditMark, CitationNeededMark, <<"[", "1", "2", "]">>,
     <<"[">>, <<"]">>, <<"1">>, <<"1", "2">>,
     <<"[", "e", "d">>, <<"i", "t", "]">>}

RECURSIVE Concat(_)
Concat(parts) == IF parts = <<>> THEN <<>> ELSE parts[1] \o Concat(Tail(parts))

Texts == {Concat(parts) : parts \in SeqUpTo(Tokens, MaxTokens)}

\* cleaned_text = clean_wikipedia(text)
CleanText ==
    /\ cleaned = NoContent
    /\ cleaned' = clean_wikipedia(input_text)
    /\ UNCHANGED <<acquire_vars, fetch_vars, disk, cull_vars, input_text,
                   recleaned>>

\* clean_wikipedia(cleaned_text): the cleaner applied to its own result.
CleanAgain ==
    /\ cleaned # NoContent
    /\ recleaned = NoContent
    /\ recleaned' = clean_wikipedia(cleaned)
    /\ UNCHANGED <<acquire_vars, fetch_vars, disk, cull_vars, input_text,
                   cleaned>>

InitClean ==
    /\ FetchIdle
    /\ disk = <<>>
    /\ CullIdle
    /\ input_text \in Texts
    /\ cleaned = NoContent
    /\ recleaned = NoContent

NextClean ==
    \/ CleanText
    \/ CleanAgain

SpecClean == InitClean /\ [][NextClean]_vars

(***************************************************************************)
(* Properties of the acquisition (SpecAcquire).                           *)
(***************************************************************************)
Chunked == fpc # "start"

\* The number a chunk stands for.
ChunkValue(e) == DecimalValue(e.text)

ChunkSizes == [k \in DOMAIN chunked_article_numbers |->
                    ChunkValue(chunked_article_numbers[k])]

RECURSIVE Sum(_)
Sum(s) == IF s = <<>> THEN 0 ELSE s[1] + Sum(Tail(s))

\* The chunking law for NUMBER = total and the chunk list sizes.
ChunkingLaw(total, sizes) ==
    LET n == Len(sizes)
    IN /\ n >= 1
       /\ Sum(sizes) = total
       /\ \A k \in 1..(n - 1) : sizes[k] = 500
       /\ sizes[n] > 0 /\ sizes[n] <= 500
       /\ Cardinality({k \in 1..n : sizes[k] = 500}) >= total \div 500
       /\ n = (total \div 500) + (IF total % 500 # 0 THEN 1 ELSE 0)
       /\ total % 500 # 0 => sizes[n] = total % 500
       /\ total <= 500 => sizes = <<total>>

\* One call per chunk, in order, each asking for the size of its chunk.
CallsFollowChunks ==
    /\ Len(calls) <= Len(ChunkSizes)
    /\ \A k \in DOMAIN calls : calls[k].request.rnlimit = ToString(ChunkSizes[k])
    /\ fpc \in {"main", "gather"} => Len(calls) = Len(ChunkSizes)

\* C13 as stated: for every total >= 0 the list chunk(total, 500) sums to
\* total, every element but the last is 500, the last is in (0, 500], there
\* are floor(total / 500) elements of 500 plus total mod 500 when not zero,
\* and a total <= 500 gives the one element total.
C13_ChunkingLawFromZero ==
    Chunked => ChunkingLaw(number, ChunkSizes)

\* C13, amended: the chunking law holds for every total >= 1 (sum total,
\* every element but the last 500, the last in (0, 500], floor(total / 500)
\* elements of 500 plus total mod 500 when not zero, one element total when
\* total <= 500), and main sends one random-id call per element, asking for
\* that many ids; for total = 0 the list is the one element 0, outside
\* (0, 500], and one call asks for 0 ids.
C13_ChunkingLawFromOne ==
    Chunked =>
        /\ number >= 1 => ChunkingLaw(number, ChunkSizes)
        /\ number = 0 => ChunkSizes = <<0>>
        /\ CallsFollowChunks

C13_Witness ==
    /\ number = 2 * 500 + 1
    /\ ChunkSizes = <<500, 500, 1>>
    /\ Len(calls) = 3
    /\ fpc = "main"

FailedCalls == {k \in DOMAIN calls : calls[k].status_code # 200}

\* C14: a random-id call answered with a status other than 200 is the last
\* call of the run: the process has exited with status 1, no request list
\* was built, no item task was created and no file was created.
C14_FailedCallAbortsAcquisition ==
    \A k \in FailedCalls :
        /\ k = Len(calls)
        /\ fpc = "exit"
        /\ exit_code = 1
        /\ article_dict = <<>>
        /\ url_list = <<>>
        /\ tasks = <<>>
        /\ disk = <<>>

\* The second of three calls fails after the first returned items.
C14_Witness ==
    /\ Len(chunked_article_numbers) = 3
    /\ FailedCalls = {2}
    /\ random_list # <<>>
    /\ exit_code = 1

\* The positions of random_list that hold the id.
Occurrences(id) == {k \in DOMAIN random_list : random_list[k].id = id}

Max(S) == CHOOSE x \in S : \A y \in S : y <= x

Launched == fpc = "gather"

\* C15: the request list holds exactly one request per distinct id of
\* random_list, and the title article_dict keeps for an id is the title of
\* its last occurrence in random_list.
C15_OneRequestPerIdLastTitleKept ==
    Launched =>
        LET ids == {random_list[k].id : k \in DOMAIN random_list}
        IN /\ Len(url_list) = Cardinality(ids)
           /\ \A id \in ids :
                Cardinality({k \in DOMAIN url_list :
                                url_list[k].params.pageid = ToString(id)}) = 1
           /\ Len(tasks) = Len(url_list)
           /\ Len(article_dict) = Cardinality(ids)
           /\ \A id \in ids : \E k \in DOMAIN article_dict :
                /\ article_dict[k].id = id
                /\ article_dict[k].title = random_list[Max(Occurrences(id))].title

\* An id returned by two calls with two titles, and twice by one call.
C15_Witness ==
    /\ Launched
    /\ Len(calls) = 2
    /\ \E id \in Ids :
            /\ Cardinality(Occurrences(id)) = 3
            /\ random_list[1].id = id
            /\ random_list[1].title # random_list[3].title
    /\ Len(url_list) = 1

(***************************************************************************)
(* Properties of the fetch batch that rest on the request list (SpecFetch).*)
(***************************************************************************)
\* C20: the item tasks of a batch have pairwise distinct destination paths
\* {target_dir}/{pageid}.json, also when random_list repeats an id, so in
\* every interleaving a file is opened for writing by one task only.
C20_TasksWriteDistinctFiles ==
    /\ \A i, j \in DOMAIN tasks :
            i # j => ExpectedPath(tasks[i]) # ExpectedPath(tasks[j])
    /\ \A p \in DOMAIN disk :
            Cardinality({i \in opened : ExpectedPath(tasks[i]) = p}) = 1

\* An id returned twice, and two tasks in the middle of their writes at once.
C20_Witness ==
    /\ \E k, l \in DOMAIN random_list : k # l /\ random_list[k].id = random_list[l].id
    /\ Len(tasks) = 2
    /\ \A i \in DOMAIN tasks : tasks[i].pc = "write"
    /\ Cardinality(DOMAIN disk) = 2

(***************************************************************************)
(* Properties of the criteria and of the frame of a culler run (SpecCull). *)
(***************************************************************************)
HasParagraphs(d) == Len(Documents[d].html.p_texts) > 0

\* The UTF-8 byte length of the cleaned paragraph text of each document
\* that has paragraphs.
CleanedByteLength ==
    [d \in {e \in DocNames : HasParagraphs(e)} |->
        utf8len(clean_wikipedia(parse_html_p_content(Documents[d].html)))]

\* The run classified the document on path p (read and parsed it).
Classified(p) == LogOf("eval", p) # <<>>

CountedAs(p, criterion) ==
    \E k \in DOMAIN log :
        log[k].op = "count" /\ log[k].path = p /\ log[k].arg = criterion

RunReturned == cpc \in {"report", "done"}

\* C11: a classified document that is not a stub and has a paragraph is
\* counted as below the size iff the UTF-8 byte length of its cleaned
\* paragraph text is less than 275, and a run that returns has deleted it
\* in that case and kept it otherwise; the document of 274 bytes is
\* excluded, the document of 275 bytes is retained.
C11_BelowSizeIffUnder275Bytes ==
    /\ CleanedByteLength["short"] = 274
    /\ CleanedByteLength["long"] = 275
    /\ \A p \in Range(filepaths) :
        LET d == start_disk[p] IN
        (Classified(p) /\ ~CountedAs(p, "stub") /\ HasParagraphs(d)) =>
            /\ CountedAs(p, "below_size") <=> CleanedByteLength[d] < 275
            /\ d = "short" => CountedAs(p, "below_size")
            /\ d = "long" => ~CountedAs(p, "below_size")
            /\ RunReturned => (p \in DOMAIN disk <=> CleanedByteLength[d] >= 275)

\* A run returned on the 274-byte and the 275-byte document: the first is
\* deleted, the second is kept.
C11_Witness ==
    /\ cpc = "report"
    /\ \E p, q \in DOMAIN start_disk :
        /\ start_disk[p] = "short" /\ start_disk[q] = "long"
        /\ p \notin DOMAIN disk
        /\ q \in DOMAIN disk
    /\ below_content_size_count = 1

\* C12: with a tag that is not a key of the marker table ("en", "he") no
\* document is counted as a stub, whatever anchors it has, and a classified
\* document without paragraph elements is counted as empty and is deleted
\* by the run when it returns; a document is counted as a stub only under
\* a tag of the table.
C12_StubOnlyForTableLocales ==
    /\ stub_file_count > 0 => lang_tag \in {"en", "he"}
    /\ lang_tag \notin {"en", "he"} =>
        /\ stub_file_count = 0
        /\ \A p \in Range(filepaths) :
            /\ ~CountedAs(p, "stub")
            /\ (Classified(p) /\ ~HasParagraphs(start_disk[p])) =>
                /\ CountedAs(p, "empty")
                /\ p \in Range(remove_path_list)
                /\ RunReturned => p \notin DOMAIN disk

\* Under "fr" a run returned on a document with the stub anchor of "en" and
\* no paragraph: it was counted as empty and is deleted.
C12_Witness ==
    /\ cpc = "report"
    /\ lang_tag = "fr"
    /\ \E p \in DOMAIN start_disk :
        /\ start_disk[p] = "stub_empty"
        /\ CountedAs(p, "empty")
        /\ p \notin DOMAIN disk
    /\ empty_content_count >= 1

\* The files of d are files of e, with the content they have in e.
SubDirectory(d, e) ==
    /\ DOMAIN d \subseteq DOMAIN e
    /\ \A p \in DOMAIN d : d[p] = e[p]

\* C18: during a run the directory is a part of the directory the run
\* started on, every file with the content it had; no step creates or
\* rewrites a file or brings a removed one back; when the run returns,
\* every document it classified as retained exists with its content.
C18_RunOnlyRemoves ==
    /\ [](cpc # "idle" => SubDirectory(disk, start_disk))
    /\ [](RunReturned =>
            \A p \in Range(filepaths) :
                (\A criterion \in Range(CriteriaOrder) : ~CountedAs(p, criterion)) =>
                    /\ p \in DOMAIN disk
                    /\ disk[p] = start_disk[p])
    /\ [][SubDirectory(disk', disk)]_vars

\* A run returned having removed one document and retained the other.
C18_Witness ==
    /\ cpc = "report"
    /\ Cardinality(DOMAIN start_disk) = 2
    /\ Cardinality(DOMAIN disk) = 1
    /\ \E p \in DOMAIN disk : start_disk[p] = "long" /\ disk[p] = "long"

\* The run ended in an exception of the classification loop.
ClassificationFailed ==
    /\ cpc = "error"
    /\ log # <<>>
    /\ log[Len(log)].op = "read"

\* C19: when the read, the JSON parse or the parse.text lookup of a
\* document fails, the run ends with no os.remove called and nothing
\* returned or printed: the directory is the one the run started on,
\* with the documents classified as excluded before the failure.
C19_FailedClassificationDeletesNothing ==
    ClassificationFailed =>
        /\ disk = start_disk
        /\ \A k \in DOMAIN log : log[k].op # "remove"
        /\ \A p \in Range(remove_path_list) : p \in DOMAIN disk
        /\ cull_error \in {"OSError", "JSONDecodeError", "KeyError"}
        /\ cull_result = None
        /\ stdout = <<>>

\* The first document was classified as excluded, the second is no JSON.
C19_Witness ==
    /\ ClassificationFailed
    /\ cull_error = "JSONDecodeError"
    /\ Len(remove_path_list) = 1
    /\ remove_path_list[1] \in DOMAIN disk

(***************************************************************************)
(* Properties of the cleaner (SpecClean).                                  *)
(***************************************************************************)
Cleaned == cleaned # NoContent
Recleaned == recleaned # NoContent

\* No "[" between a "[" and the first "]" after it: brackets do not nest.
NoNesting(s) ==
    \A i, j \in DOMAIN s :
        (i < j /\ s[i] = "[" /\ s[j] = "[") => \E k \in (i + 1)..(j - 1) : s[k] = "]"

\* s holds a marker: "[edit]", "[" 1-to-3 digits "]" or "[citation needed]".
HasMarker(s) ==
    \E i \in DOMAIN s :
        \/ LiteralMatch(s, i, <<"[", "e", "d", "i", "t", "]">>) > 0
        \/ LiteralMatch(s, i, CitationNeededMark) > 0
        \/ \E n \in 1..3 :
                /\ i + n + 1 <= Len(s)
                /\ s[i] = "[" /\ s[i + n + 1] = "]"
                /\ \A k \in 1..n : s[i + k] \in Digits

\* C16 as stated: for every text the cleaner applied to its result changes
\* nothing, and the result holds no marker.
C16_CleanIdempotent ==
    Recleaned => (recleaned = cleaned /\ ~HasMarker(cleaned))

\* C16, amended: on every text whose brackets do not nest (no "[" between
\* a "[" and the first "]" after it) the cleaner is idempotent, and its
\* result holds none of the three markers.
C16_CleanIdempotentWithoutNesting ==
    /\ (Cleaned /\ NoNesting(input_text)) => ~HasMarker(cleaned)
    /\ (Recleaned /\ NoNesting(input_text)) => recleaned = cleaned

\* A text without nesting that holds two markers was cleaned twice.
C16_Witness ==
    /\ Recleaned
    /\ input_text = EditMark \o <<"[", "1", "2", "]">> \o <<"i", "t", "]">>
    /\ cleaned = <<"i", "t", "]">>
    /\ recleaned = cleaned

\* The three removals, and the text they give in an order.
Removal(name, s) ==
    CASE name = "edit" -> RemoveLiteral(s, EditMark)
      [] name = "ref" -> RemoveWikiRefs(s)
      [] name = "citation" -> RemoveLiteral(s, CitationNeededMark)

InOrder(order, s) == Removal(order[3], Removal(order[2], Removal(order[1], s)))

Orderings ==
    {order \in [1..3 -> {"edit", "ref", "citation"}] :
        \A i, j \in 1..3 : i # j => order[i] # order[j]}

\* C17 as stated: for every text each of the six orderings of the three
\* removals gives the text clean_wikipedia gives.
C17_EveryOrderSameText ==
    Cleaned => \A order \in Orderings : InOrder(order, input_text) = cleaned

\* C17, amended: on every text whose brackets do not nest each of the six
\* orderings of the three removals gives clean_wikipedia(x); on any text
\* clean_wikipedia gives what the order "[edit]", reference, "[citation
\* needed]" gives.
C17_EveryOrderSameTextWithoutNesting ==
    Cleaned =>
        /\ Cardinality(Orderings) = 6
        /\ InOrder(<<"edit", "ref", "citation">>, input_text) = cleaned
        /\ NoNesting(input_text) =>
                \A order \in Orderings : InOrder(order, input_text) = cleaned

\* A text without nesting that holds the three markers, in the reverse of
\* the order clean_wikipedia removes them, was cleaned.
C17_Witness ==
    /\ Cleaned
    /\ recleaned = NoContent
    /\ input_text = CitationNeededMark \o <<"[", "1", "2", "]">> \o EditMark
    /\ cleaned = <<>>
====
